---- MODULE Spec2Model ----
\* Model of src/gmail_mcp/server.py: the Gmail MCP server. One tool call is the
\* handler call_tool: it resolves credentials with get_gmail_service (token file,
\* refresh, interactive authorization, token-file write), dispatches on the tool
\* name and runs one of the four mail operations. The token file, the credentials
\* file and the remote service are the environment.
EXTENDS Integers, Sequences, FiniteSets, TLC

\* ---------------------------------------------------------------- bounds

\* Request slots of the transport (requests that can be outstanding at once).
NumReq == 2
\* Credentials the remote issues in one run (refreshes plus authorizations).
MaxIssued == 2
\* Messages a query can match in the mailbox.
MaxMatches == 11
\* The same, for the calls of the whole-server specification.
FewMatches == 1
\* Top-level MIME parts of a message payload.
MaxParts == 2
\* Labels of the account.
MaxLabels == 1

Req == 1..NumReq

VARIABLES
    tokenFile,          \* contents of the file at GMAIL_TOKEN_PATH
    credsFile,          \* whether the file at GMAIL_CREDENTIALS_PATH exists
    call,               \* per request slot: the handler's locals and position
    nextId,             \* the next credential the remote will issue
    lastIssued,         \* history: id of the most recently created/refreshed credential
    touched,            \* history: the token file was changed from outside since the last write
    refreshJustFailed,  \* history: the last finished acquisition was a rejected refresh
    lastService,        \* history: credentials of the service object built by the previous call
    last                \* history: the call that returned in the last step, with its response

vars == <<tokenFile, credsFile, call, nextId, lastIssued, touched, refreshJustFailed,
          lastService, last>>

\* ---------------------------------------------------------------- credentials

\* os.path.exists(token_path) is false.
Absent == [kind |-> "absent", id |-> 0, expired |-> FALSE, refresh_token |-> FALSE]
\* A token file Credentials.from_authorized_user_file cannot deserialize.
Corrupt == [kind |-> "corrupt", id |-> 0, expired |-> FALSE, refresh_token |-> FALSE]
\* creds = None
NoCreds == [present |-> FALSE, id |-> 0, expired |-> FALSE, refresh_token |-> FALSE]

\* Token files written by something other than this process (id 0).
ExternalTokenFiles ==
    {Absent, Corrupt} \cup
    [kind : {"json"}, id : {0}, expired : BOOLEAN, refresh_token : BOOLEAN]

\* Credentials.from_authorized_user_file(token_path, SCOPES) on a readable file.
FromAuthorizedUserFile(file) ==
    [present |-> TRUE, id |-> file.id, expired |-> file.expired,
     refresh_token |-> file.refresh_token]

\* creds.to_json() as written to the token file.
ToJsonStale(creds) ==
    [kind |-> "json", id |-> creds.id, expired |-> TRUE,
     refresh_token |-> creds.refresh_token]

ToJson(creds) ==
    [kind |-> "json", id |-> creds.id, expired |-> creds.expired,
     refresh_token |-> creds.refresh_token]

\* creds.valid
Valid(creds) == creds.present /\ ~creds.expired

\* The token file a call resolves its credentials from; `cached` is the service
\* the previous call built, which the code never keeps.
ResolveFromCached(file, cached) ==
    IF cached.present THEN ToJson(cached) ELSE file

ResolveFrom(file, cached) == file

\* The branch get_gmail_service takes once the token file is loaded.
BranchNoFileCheck(creds, cf) ==
    IF Valid(creds) THEN "use"
    ELSE IF creds.present /\ creds.expired /\ creds.refresh_token THEN "refresh"
    ELSE "authorize"

Branch(creds, cf) ==
    IF Valid(creds) THEN "use"
    ELSE IF creds.present /\ creds.expired /\ creds.refresh_token THEN "refresh"
    ELSE IF ~cf THEN "config_error"
    ELSE "authorize"

\* The path a call takes from a token file and credentials file, parse included.
AcquirePath(file, cf) ==
    IF file.kind = "absent" THEN Branch(NoCreds, cf)
    ELSE IF file.kind = "corrupt" THEN "parse_error"
    ELSE Branch(FromAuthorizedUserFile(file), cf)

\* creds.refresh(Request()) accepted by the remote: a new access token.
Refreshed(creds, id) == [creds EXCEPT !.id = id, !.expired = FALSE]

\* flow.run_local_server(port=0) completed: a new credential.
Authorized(id, rt) ==
    [present |-> TRUE, id |-> id, expired |-> FALSE, refresh_token |-> rt]

\* ---------------------------------------------------------------- tools

RegisteredTools == {"gmail_search", "gmail_read", "gmail_send", "gmail_list_labels"}
ToolNames == RegisteredTools \cup {"gmail_delete"}

\* Positions of the handler between entry and return.
HandlerPcs == {"refresh", "authorize", "persist", "dispatch"}

\* Whether the handler yields to the event loop while at `pc`: every remote call
\* and file access of call_tool is a blocking call, none is awaited.
SuspendsAtRemote(pc) == pc \in {"refresh", "authorize"}

Suspends(pc) == FALSE

NoArgs ==
    [query |-> FALSE, has_max |-> FALSE, max_results |-> 0, message_id |-> FALSE,
     to |-> FALSE, subject |-> FALSE, body |-> FALSE]

NoPayload == [has_parts |-> FALSE, parts |-> <<>>, body |-> "none"]

Idle ==
    [pc |-> "idle", name |-> "", args |-> NoArgs, creds |-> NoCreds,
     loaded |-> Absent, startTok |-> Absent, startCf |-> FALSE,
     err |-> "", out |-> <<>>, nLoad |-> 0, nRefresh |-> 0, nAuth |-> 0, nMail |-> 0,
     wrote |-> FALSE, written |-> Absent, issued |-> FALSE,
     refreshRejected |-> FALSE, afterRefreshFailure |-> FALSE,
     listing |-> <<>>, payload |-> NoPayload]

InHandler(r) == call[r].pc \in HandlerPcs

\* The event loop can start or resume something else: no handler holds it.
LoopFree(r) == \A q \in Req \ {r} : InHandler(q) => Suspends(call[q].pc)

\* ---------------------------------------------------------------- remote mail service

\* The header names the remote returns for message m (the mailbox's data).
HeaderNames(m) ==
    IF m % 4 = 0 THEN {"To", "Date"}
    ELSE IF m % 4 = 2 THEN {"From", "To", "Subject"}
    ELSE {"From", "To", "Subject", "Date"}

\* headers.get(name, default) on {h["name"]: h["value"] for h in payload["headers"]}
HeaderGet(m, name, default) ==
    IF name \in HeaderNames(m) THEN <<name, m>> ELSE <<default>>

Min(a, b) == IF a < b THEN a ELSE b

\* messages().list(userId="me", q=query, maxResults=max_results).execute() on a
\* mailbox with M matches: the first page, newest first, of at most mr ids.
ListMessages(M, mr) == [i \in 1..Min(M, mr) |-> M - i + 1]

\* base64 in the URL-safe alphabet of a text, as the remote sends body data.
Enc(t) == <<"b64", t>>
\* base64.urlsafe_b64decode(data).decode("utf-8")
UrlsafeB64Decode(d) == d[2]

\* Top-level parts a payload can hold: plaintext with data, plaintext without
\* data (an attachment: attachmentId and size only), html, and a nested multipart
\* whose own parts hold the plaintext.
PartKinds ==
    { [mimeType |-> "text/plain", has_data |-> TRUE, data |-> Enc("A"), nested |-> FALSE],
      [mimeType |-> "text/plain", has_data |-> TRUE, data |-> Enc("B"), nested |-> FALSE],
      [mimeType |-> "text/plain", has_data |-> FALSE, data |-> <<>>, nested |-> FALSE],
      [mimeType |-> "text/html", has_data |-> TRUE, data |-> Enc("H"), nested |-> FALSE],
      [mimeType |-> "multipart/alternative", has_data |-> FALSE, data |-> <<>>,
       nested |-> TRUE] }

PartSeqs == UNION {[1..n -> PartKinds] : n \in 0..MaxParts}

\* msg["payload"]: with or without a parts array; body absent ("none"), present
\* without data ("nodata") or with data ("data").
Payloads ==
    [has_parts : {TRUE}, parts : PartSeqs, body : {"none", "nodata", "data"}]
    \cup [has_parts : {FALSE}, parts : {<<>>}, body : {"none", "nodata", "data"}]

TopData == Enc("T")

\* Payloads of the calls of the whole-server specification: one of each outcome.
FewPayloads ==
    {p \in Payloads : /\ Len(p.parts) <= 1
                      /\ p.body = (IF p.has_parts THEN "none" ELSE "data")
                      /\ \A i \in 1..Len(p.parts) : p.parts[i].data # Enc("B")}

\* ---------------------------------------------------------------- the four operations

\* No cap passed on: the remote's own page size.
DefaultMaxResultsLarge == 10 * 10

\* arguments.get("max_results", 10)
DefaultMaxResults == 10

Result(err, out, nMail) ==
    [err |-> err, out |-> out, nMail |-> nMail, listing |-> <<>>, payload |-> NoPayload]

\* One f-string block of the search output, as its lines.
SearchBlock(m) ==
    << <<"ID", <<"id", m>>>>,
       <<"From", HeaderGet(m, "From", "Unknown")>>,
       <<"Subject", HeaderGet(m, "Subject", "No Subject")>>,
       <<"Date", HeaderGet(m, "Date", "Unknown")>>,
       <<"---", <<>>>> >>

\* "\n".join(output) over the blocks of the listed messages, in loop order.
RECURSIVE JoinBlocks(_)
JoinBlocks(lst) ==
    IF lst = <<>> THEN <<>> ELSE SearchBlock(Head(lst)) \o JoinBlocks(Tail(lst))

SearchOutput(lst) == JoinBlocks(lst)

\* _search_emails. M: matches in the mailbox; listOK: the listing call succeeds;
\* failAt: the metadata fetch that fails (0: none).
SearchEmails(args, M, listOK, failAt) ==
    IF ~args.query THEN Result("MissingArgumentError", <<>>, 0)
    ELSE LET mr == IF args.has_max THEN args.max_results ELSE DefaultMaxResults
             messages == ListMessages(M, mr)
         IN IF ~listOK THEN Result("RemoteServiceError", <<>>, 1)
            ELSE IF messages = <<>>
            THEN [Result("", << <<"No messages found.", <<>>>> >>, 1)
                     EXCEPT !.listing = messages]
            ELSE IF failAt \in 1..Len(messages)
            THEN [Result("RemoteServiceError", <<>>, 1 + failAt)
                     EXCEPT !.listing = messages]
            ELSE [Result("", SearchOutput(messages), 1 + Len(messages))
                     EXCEPT !.listing = messages]

\* The loop over msg["payload"]["parts"] with its break: the index of the first
\* top-level text/plain part, 0 when there is none.
FirstPlain(parts) ==
    IF \E i \in 1..Len(parts) : parts[i].mimeType = "text/plain"
    THEN CHOOSE i \in 1..Len(parts) :
            /\ parts[i].mimeType = "text/plain"
            /\ \A j \in 1..(i - 1) : parts[j].mimeType # "text/plain"
    ELSE 0

\* The body extraction of _read_email: [err, body].
ExtractBody(payload) ==
    IF payload.has_parts
    THEN LET i == FirstPlain(payload.parts)
         IN IF i = 0 THEN [err |-> "", body |-> ""]
            ELSE IF ~payload.parts[i].has_data THEN [err |-> "KeyError", body |-> ""]
            ELSE [err |-> "", body |-> UrlsafeB64Decode(payload.parts[i].data)]
    ELSE IF payload.body = "data"
    THEN [err |-> "", body |-> UrlsafeB64Decode(TopData)]
    ELSE [err |-> "", body |-> ""]

\* _read_email. getOK: the fetch succeeds; m: the message fetched.
ReadEmail(args, getOK, m, payload) ==
    IF ~args.message_id THEN Result("MissingArgumentError", <<>>, 0)
    ELSE IF ~getOK THEN Result("RemoteServiceError", <<>>, 1)
    ELSE LET b == ExtractBody(payload)
         IN IF b.err # "" THEN [Result(b.err, <<>>, 1) EXCEPT !.payload = payload]
            ELSE [Result("",
                         << <<"From", HeaderGet(m, "From", "Unknown")>>,
                            <<"To", HeaderGet(m, "To", "Unknown")>>,
                            <<"Subject", HeaderGet(m, "Subject", "No Subject")>>,
                            <<"Date", HeaderGet(m, "Date", "Unknown")>>,
                            <<"", <<>>>>,
                            <<"body", <<b.body>>>> >>, 1)
                     EXCEPT !.payload = payload]

\* _send_email: arguments["body"], ["to"], ["subject"], then one send call.
SendEmail(args, sendOK, sid) ==
    IF ~args.body \/ ~args.to \/ ~args.subject
    THEN Result("MissingArgumentError", <<>>, 0)
    ELSE IF ~sendOK THEN Result("RemoteServiceError", <<>>, 1)
    ELSE Result("", << <<"Email sent successfully. Message ID", <<"id", sid>>>> >>, 1)

RECURSIVE LabelLines(_)
LabelLines(n) ==
    IF n = 0 THEN <<>> ELSE LabelLines(n - 1) \o << <<"-", <<"label", n>>>> >>

\* _list_labels on an account with n labels.
ListLabels(listOK, n) ==
    IF ~listOK THEN Result("RemoteServiceError", <<>>, 1)
    ELSE IF n = 0 THEN Result("", << <<"No labels found.", <<>>>> >>, 1)
    ELSE Result("", << <<"Gmail Labels:", <<>>>>, <<"---", <<>>>> >> \o LabelLines(n), 1)

\* The argument mappings a caller sends, per tool.
ArgsOf(name) ==
    IF name = "gmail_search"
    THEN {[NoArgs EXCEPT !.query = q, !.has_max = h, !.max_results = mr] :
            q \in BOOLEAN, h \in {TRUE}, mr \in {1, 3}}
         \cup {[NoArgs EXCEPT !.query = TRUE], NoArgs}
    ELSE IF name = "gmail_read"
    THEN {[NoArgs EXCEPT !.message_id = b] : b \in BOOLEAN}
    ELSE IF name = "gmail_send"
    THEN LET all == [NoArgs EXCEPT !.to = TRUE, !.subject = TRUE, !.body = TRUE]
         IN {all, [all EXCEPT !.to = FALSE], [all EXCEPT !.subject = FALSE],
             [all EXCEPT !.body = FALSE]}
    ELSE {NoArgs}

\* ---------------------------------------------------------------- state machine

Init ==
    /\ tokenFile \in ExternalTokenFiles
    /\ credsFile \in BOOLEAN
    /\ call = [r \in Req |-> Idle]
    /\ nextId = 1
    /\ lastIssued = 0
    /\ touched = FALSE
    /\ refreshJustFailed = FALSE
    /\ lastService = NoCreds
    /\ last = Idle

\* server.run reads one request from the stream and schedules its handler; the
\* request takes the first free slot.
Receive(r) ==
    /\ call[r].pc = "idle"
    /\ \A q \in Req : q < r => call[q].pc # "idle"
    /\ LoopFree(r)
    /\ call' = [call EXCEPT ![r].pc = "pending"]
    /\ last' = Idle
    /\ UNCHANGED <<tokenFile, credsFile, nextId, lastIssued, touched,
                   refreshJustFailed, lastService>>

\* The handler's locals after get_gmail_service has loaded the token file and
\* chosen its branch (lines 30-45).
EnteredBody(c, file, cf) ==
    IF file.kind = "corrupt"
    THEN [c EXCEPT !.pc = "done", !.err = "TokenParseError"]
    ELSE LET creds == IF file.kind = "absent" THEN NoCreds
                      ELSE FromAuthorizedUserFile(file)
             b == Branch(creds, cf)
         IN IF b = "use" THEN [c EXCEPT !.pc = "dispatch", !.creds = creds]
            ELSE IF b = "refresh" THEN [c EXCEPT !.pc = "refresh", !.creds = creds]
            ELSE IF b = "config_error"
            THEN [c EXCEPT !.pc = "done", !.err = "ConfigurationError", !.creds = creds]
            ELSE [c EXCEPT !.pc = "authorize", !.creds = creds]

EnteredRemembersFailure(c, file, cf) ==
    IF c.afterRefreshFailure /\ cf
    THEN [c EXCEPT !.pc = "authorize"]
    ELSE EnteredBody(c, file, cf)

Entered(c, file, cf) == EnteredBody(c, file, cf)

\* The call in slot r becomes c: a call that has returned or raised leaves the
\* slot and is kept, with its response, as the last call. The tool name is an
\* input the handler first reads on line 130: it is drawn where the code reads
\* it, or here for a call that fails before.
Step(r, c) ==
    IF c.pc = "done"
    THEN /\ call' = [call EXCEPT ![r] = Idle]
         /\ IF c.name = ""
            THEN \E name \in ToolNames : last' = [c EXCEPT !.name = name]
            ELSE last' = c
    ELSE call' = [call EXCEPT ![r] = c] /\ last' = Idle

\* call_tool(name, arguments) starts: service = get_gmail_service() up to its
\* first remote call.
Enter(r) ==
    /\ call[r].pc = "pending"
    /\ LoopFree(r)
    /\ nextId <= MaxIssued
    /\ LET file == ResolveFrom(tokenFile, lastService)
             c == [Idle EXCEPT !.startTok = tokenFile, !.startCf = credsFile,
                               !.loaded = file, !.nLoad = 1,
                               !.afterRefreshFailure = refreshJustFailed]
         IN Step(r, Entered(c, file, credsFile))
    /\ refreshJustFailed' = FALSE
    /\ UNCHANGED <<tokenFile, credsFile, nextId, lastIssued, touched, lastService>>

\* The handler's locals after the remote rejected creds.refresh(Request()): the
\* exception leaves get_gmail_service and call_tool.
OnRefreshRejectedFallBack(c) ==
    [c EXCEPT !.pc = "authorize", !.nRefresh = @ + 1, !.refreshRejected = TRUE]

OnRefreshRejected(c) ==
    [c EXCEPT !.pc = "done", !.err = "RefreshError", !.nRefresh = @ + 1,
              !.refreshRejected = TRUE]

\* creds.refresh(Request()), line 39.
Refresh(r) ==
    /\ call[r].pc = "refresh"
    /\ \E ok \in BOOLEAN :
         IF ok
         THEN /\ Step(r, [call[r] EXCEPT !.creds = Refreshed(@, nextId),
                                         !.nRefresh = @ + 1,
                                         !.issued = TRUE,
                                         !.pc = "persist"])
              /\ nextId' = nextId + 1
              /\ lastIssued' = nextId
              /\ UNCHANGED refreshJustFailed
         ELSE /\ Step(r, OnRefreshRejected(call[r]))
              /\ refreshJustFailed' = (tokenFile = call[r].startTok)
              /\ UNCHANGED <<nextId, lastIssued>>
    /\ UNCHANGED <<tokenFile, credsFile, touched, lastService>>

\* InstalledAppFlow.from_client_secrets_file and flow.run_local_server, lines 46-47.
Authorize(r) ==
    /\ call[r].pc = "authorize"
    /\ \E ok \in BOOLEAN, rt \in BOOLEAN :
         IF ok
         THEN /\ Step(r, [call[r] EXCEPT !.creds = Authorized(nextId, rt),
                                         !.nAuth = @ + 1,
                                         !.issued = TRUE,
                                         !.pc = "persist"])
              /\ nextId' = nextId + 1
              /\ lastIssued' = nextId
         ELSE /\ Step(r, [call[r] EXCEPT !.pc = "done",
                                         !.err = "AuthorizationError",
                                         !.nAuth = @ + 1])
              /\ UNCHANGED <<nextId, lastIssued>>
    /\ UNCHANGED <<tokenFile, credsFile, touched, refreshJustFailed, lastService>>

PersistNothing(r) ==
    /\ call[r].pc = "persist"
    /\ Step(r, [call[r] EXCEPT !.pc = "dispatch"])
    /\ UNCHANGED <<tokenFile, credsFile, nextId, lastIssued, touched,
                   refreshJustFailed, lastService>>

\* with open(token_path, "w") as token: token.write(creds.to_json()), lines 49-50.
Persist(r) ==
    /\ call[r].pc = "persist"
    /\ tokenFile' = ToJson(call[r].creds)
    /\ touched' = FALSE
    /\ Step(r, [call[r] EXCEPT !.pc = "dispatch", !.wrote = TRUE,
                               !.written = ToJson(call[r].creds)])
    /\ UNCHANGED <<credsFile, nextId, lastIssued, refreshJustFailed, lastService>>

\* The handler, called with tool name `name` and arguments args, returns or
\* raises with result res; build(...) made the service.
Finish(r, name, args, res) ==
    /\ Step(r, [call[r] EXCEPT !.pc = "done", !.name = name, !.args = args,
                               !.err = res.err,
                               !.out = res.out, !.nMail = res.nMail,
                               !.listing = res.listing, !.payload = res.payload])
    /\ lastService' = call[r].creds
    /\ UNCHANGED <<tokenFile, credsFile, nextId, lastIssued, touched, refreshJustFailed>>

\* return await _search_emails(service, arguments) on a mailbox of at most
\* `most` matches.
SearchOver(r, most) ==
    /\ call[r].pc = "dispatch"
    /\ \E args \in ArgsOf("gmail_search") :
       \E M \in 0..most, listOK \in BOOLEAN, failAt \in 0..most :
         /\ failAt <= Min(M, IF args.has_max THEN args.max_results
                             ELSE DefaultMaxResults)
         /\ failAt > 0 => listOK /\ args.query
         /\ Finish(r, "gmail_search", args, SearchEmails(args, M, listOK, failAt))

Search(r) == SearchOver(r, FewMatches)

\* return await _read_email(service, arguments) where the remote holds a
\* payload of `payloads`.
ReadOver(r, payloads) ==
    /\ call[r].pc = "dispatch"
    /\ \E args \in ArgsOf("gmail_read") :
       \E getOK \in BOOLEAN, m \in {1, 4}, payload \in payloads :
         Finish(r, "gmail_read", args, ReadEmail(args, getOK, m, payload))

Read(r) == ReadOver(r, FewPayloads)

Send(r) ==
    /\ call[r].pc = "dispatch"
    /\ \E args \in ArgsOf("gmail_send") :
       \E sendOK \in BOOLEAN : Finish(r, "gmail_send", args, SendEmail(args, sendOK, 1))

Labels(r) ==
    /\ call[r].pc = "dispatch"
    /\ \E listOK \in BOOLEAN, n \in 0..MaxLabels :
         Finish(r, "gmail_list_labels", NoArgs, ListLabels(listOK, n))

\* raise ValueError(f"Unknown tool: {name}"), line 139.
Unknown(r) ==
    /\ call[r].pc = "dispatch"
    /\ \E name \in ToolNames \ RegisteredTools :
         Finish(r, name, NoArgs, Result("UnknownToolError", <<>>, 0))

\* ---------------------------------------------------------------- environment

\* Something outside the process replaces or deletes the token file.
SetTokenFile ==
    /\ \E f \in ExternalTokenFiles \ {tokenFile} : tokenFile' = f
    /\ touched' = TRUE
    /\ refreshJustFailed' = FALSE
    /\ last' = Idle
    /\ UNCHANGED <<credsFile, call, nextId, lastIssued, lastService>>

\* Time passes the expiry of the stored access token.
Expire ==
    /\ tokenFile.kind = "json"
    /\ ~tokenFile.expired
    /\ tokenFile' = [tokenFile EXCEPT !.expired = TRUE]
    /\ last' = Idle
    /\ UNCHANGED <<credsFile, call, nextId, lastIssued, touched, refreshJustFailed,
                   lastService>>

\* The operator downloads or removes the credentials file. The handler looks at
\* the file on entry only (lines 41-46), so the change is taken between calls.
SetCredentialsFile ==
    /\ \A r \in Req : ~InHandler(r)
    /\ credsFile' = ~credsFile
    /\ last' = Idle
    /\ UNCHANGED <<tokenFile, call, nextId, lastIssued, touched, refreshJustFailed,
                   lastService>>

Next ==
    \/ \E r \in Req : Receive(r)
    \/ \E r \in Req : Enter(r)
    \/ \E r \in Req : Refresh(r)
    \/ \E r \in Req : Authorize(r)
    \/ \E r \in Req : Persist(r)
    \/ \E r \in Req : Search(r)
    \/ \E r \in Req : Read(r)
    \/ \E r \in Req : Send(r)
    \/ \E r \in Req : Labels(r)
    \/ \E r \in Req : Unknown(r)
    \/ SetTokenFile
    \/ Expire
    \/ SetCredentialsFile

Spec == Init /\ [][Next]_vars

\* ---------------------------------------------------------------- one operation at a time

\* The server with a usable token file and no interference: calls reach their
\* operation directly.
InitValid ==
    /\ Init
    /\ tokenFile.kind = "json"
    /\ ~tokenFile.expired
    /\ credsFile

\* Search calls over every mailbox size and argument mapping.
NextSearch ==
    \/ \E r \in Req : Receive(r)
    \/ \E r \in Req : Enter(r)
    \/ \E r \in Req : SearchOver(r, MaxMatches)

SpecSearch == InitValid /\ [][NextSearch]_vars

\* Read calls over every payload shape.
NextRead ==
    \/ \E r \in Req : Receive(r)
    \/ \E r \in Req : Enter(r)
    \/ \E r \in Req : ReadOver(r, Payloads)

SpecRead == InitValid /\ [][NextRead]_vars

\* ---------------------------------------------------------------- properties

\* The calls in progress and the call that has just returned.
Calls == {call[r] : r \in Req} \cup {last}
Started(c) == c.pc \in HandlerPcs \cup {"done"}
Done == last.pc = "done"

\* C1: a call naming an unregistered tool is rejected before any remote call:
\* no refresh round-trip, no interactive authorization and no mail-service call
\* is made during it, and unless the files alone already fail it (no
\* credentials file, unreadable token file) its error is the unknown-tool error.
C1_UnknownToolRejectedBeforeRemote ==
    Done /\ last.name \notin RegisteredTools =>
        /\ last.nRefresh = 0 /\ last.nAuth = 0 /\ last.nMail = 0
        /\ last.err \notin {"ConfigurationError", "TokenParseError"} =>
              last.err = "UnknownToolError"

\* C2: with the token file and the credentials file both absent, session
\* acquisition fails with the configuration error before any network call, and
\* no token file is created.
C2_NoTokenNoCredentialsFails ==
    \A c \in Calls :
        Started(c) /\ c.startTok.kind = "absent" /\ ~c.startCf =>
            /\ c.pc = "done" /\ c.err = "ConfigurationError"
            /\ c.nRefresh = 0 /\ c.nAuth = 0 /\ c.nMail = 0
            /\ ~c.wrote /\ ~c.issued
            /\ tokenFile.kind = "absent"

C2_Witness ==
    /\ Done /\ last.startTok.kind = "absent" /\ ~last.startCf
    /\ last.err = "ConfigurationError"

\* C3: a call that created or refreshed a credential has overwritten the token
\* file with it before the session is returned and before any mail-service call;
\* and, unless something outside replaced the file since, the token file holds
\* the most recently created or refreshed credential.
C3_IssuedCredentialPersisted ==
    /\ \A c \in Calls :
          c.issued /\ (c.pc = "dispatch" \/ c.nMail > 0 \/ (c.pc = "done" /\ c.err = "")) =>
              /\ c.wrote
              /\ c.written.kind = "json" /\ c.written.id = c.creds.id
              /\ ~c.written.expired
    /\ (\A r \in Req : call[r].pc # "persist") /\ ~touched /\ lastIssued # 0 =>
          tokenFile.kind = "json" /\ tokenFile.id = lastIssued

C3_Witness ==
    /\ Done /\ last.issued /\ last.nRefresh = 1 /\ last.nMail > 0
    /\ lastIssued = 2 /\ tokenFile.id = 2 /\ ~touched

\* C4: when the remote rejects the refresh the call fails at once: one refresh
\* attempt, no interactive authorization, no mail-service call, and the token
\* file is not written.
C4_RefreshRejectedFailsCall ==
    \A c \in Calls :
        c.refreshRejected =>
            /\ c.pc = "done" /\ c.err = "RefreshError"
            /\ c.nRefresh = 1 /\ c.nAuth = 0 /\ c.nMail = 0
            /\ ~c.wrote

C4_Witness ==
    /\ Done /\ last.refreshRejected /\ last.err = "RefreshError"
    /\ tokenFile = last.startTok

\* C5 as claimed: the call that follows a call failed by a rejected refresh runs
\* the interactive authorization and does not attempt the refresh again.
C5_NextCallAuthorizes ==
    \A c \in Calls :
        Started(c) /\ c.afterRefreshFailure =>
            /\ c.nRefresh = 0
            /\ c.pc # "refresh"

\* C5 as amended: the call that follows a call failed by a rejected refresh, the
\* token file being unchanged, attempts the refresh again with the stored refresh
\* token and does not run the interactive authorization.
C5_NextCallRefreshesAgain ==
    \A c \in Calls :
        Started(c) /\ c.afterRefreshFailure =>
            /\ c.nAuth = 0 /\ c.pc # "authorize"
            /\ c.pc = "refresh" \/ c.nRefresh = 1

C5_Witness ==
    /\ Done /\ last.afterRefreshFailure /\ last.nRefresh = 1 /\ last.nAuth = 0
    /\ last.err = "" /\ last.nMail > 0

\* The errors a call raises itself, after the session was acquired.
CallErrors == {"UnknownToolError", "MissingArgumentError", "RemoteServiceError"}
\* The token file as a call left it.
TokenAfter(c) == IF c.wrote THEN c.written ELSE c.startTok

\* C6 as claimed: a call failed by an unknown-tool, missing-argument or
\* remote-service error leaves no state that changes later calls: a later call
\* takes the acquisition path, and so can return the results, it would have
\* without the failed call.
C6_FailedCallLeavesNoState ==
    Done /\ last.err \in CallErrors =>
        AcquirePath(TokenAfter(last), last.startCf)
            = AcquirePath(last.startTok, last.startCf)

\* C6 as amended: such a call produces an error and no text, and the only state
\* it leaves is the token file, written only when its own session acquisition
\* created or refreshed a credential, and then holding a credential that later
\* calls use as it is.
C6_FailedCallLeavesOnlyFreshToken ==
    Done /\ last.err \in CallErrors =>
        /\ last.out = <<>>
        /\ ~last.issued => ~last.wrote /\ TokenAfter(last) = last.startTok
        /\ last.issued =>
              /\ last.wrote
              /\ last.written.id = last.creds.id
              /\ AcquirePath(last.written, last.startCf) = "use"

C6_Witness ==
    /\ Done /\ last.err = "MissingArgumentError" /\ last.issued /\ last.wrote
    /\ last.nAuth = 1

C8_SearchOutput ==
    \A c \in Calls :
        c.pc = "done" /\ c.name = "gmail_search" /\ c.args.query =>
            LET n == Len(c.listing)
                cap == IF c.args.has_max THEN c.args.max_results ELSE 10
            IN /\ n <= cap
               /\ c.nMail <= 1 + n
               /\ c.err # "" => c.out = <<>>
               /\ c.err = "" /\ n = 0 => c.out = << <<"No messages found.", <<>>>> >>
               /\ c.err = "" /\ n > 0 =>
                     /\ c.nMail = 1 + n
                     /\ Len(c.out) = 5 * n
                     /\ \A i \in 1..n :
                          /\ c.out[5 * (i - 1) + 1] = <<"ID", <<"id", c.listing[i]>>>>
                          /\ c.out[5 * (i - 1) + 2][1] = "From"
                          /\ c.out[5 * (i - 1) + 3][1] = "Subject"
                          /\ c.out[5 * (i - 1) + 4][1] = "Date"
                          /\ c.out[5 * (i - 1) + 5] = <<"---", <<>>>>

C8_Witness ==
    /\ Done /\ last.name = "gmail_search" /\ last.err = "" /\ ~last.args.has_max
    /\ Len(last.listing) = 10 /\ last.listing[1] = 11
    /\ Len(last.out) = 50

\* The body C9 states for a payload.
ClaimedBody(p) ==
    IF p.has_parts
    THEN IF \E i \in 1..Len(p.parts) : p.parts[i].mimeType = "text/plain"
         THEN LET i == CHOOSE k \in 1..Len(p.parts) :
                         /\ p.parts[k].mimeType = "text/plain"
                         /\ \A j \in 1..(k - 1) : p.parts[j].mimeType # "text/plain"
              IN IF p.parts[i].has_data THEN p.parts[i].data[2] ELSE ""
         ELSE ""
    ELSE IF p.body = "data" THEN "T" ELSE ""

\* C9: for every payload shape, read returns the decoded data of the first
\* top-level text/plain part when there is a parts array, the decoded top-level
\* body data when there is none, and the empty string in every other case; the
\* absence of a plaintext body is never an error.
C9_ReadBodyNeverFails ==
    Done /\ last.name = "gmail_read" /\ last.args.message_id
         /\ last.err # "RemoteServiceError" =>
        /\ last.err = ""
        /\ Len(last.out) = 6
        /\ last.out[6] = <<"body", <<ClaimedBody(last.payload)>>>>

\* C10: every call naming a registered tool resolves its credentials once, from
\* the token file as it is when the call starts, before any mail-service call;
\* nothing obtained by an earlier call is reused.
C10_CredentialsResolvedPerCall ==
    \A c \in Calls :
        Started(c) /\ (c.pc = "done" => c.name \in RegisteredTools) =>
            /\ c.nLoad = 1
            /\ c.loaded = c.startTok
            /\ c.pc = "dispatch" /\ ~c.issued =>
                  c.creds = FromAuthorizedUserFile(c.startTok)

C10_Witness ==
    \E r \in Req :
        /\ call[r].pc = "authorize"
        /\ lastService.present /\ ~lastService.expired
        /\ call[r].startTok.kind = "absent" /\ call[r].loaded.kind = "absent"

====
